---- MODULE Spec2Model ----
(***************************************************************************)
(* Retention Status Resolver of the eHRfiles admin console                 *)
(* (src/app/frame/admin/batch-ret/page.tsx): one page instance running     *)
(* runBatch against the documents and employees tables; and the Legal      *)
(* Hold Propagator (the legal hold batch page), one page instance running  *)
(* its runBatch against the same tables, with the upload API beside it.    *)
(*                                                                         *)
(* Strings are TLA+ strings; JS null is the string NULL.  A JS Date is a   *)
(* record [valid, y, m, d] holding the LOCAL calendar fields the code      *)
(* reads with getFullYear/getMonth/getDate (m is 1..12 here); the time of  *)
(* day is dropped once the local day is known, no code path reads it.      *)
(***************************************************************************)
EXTENDS Integers, Sequences, FiniteSets, TLC

VARIABLES
  documents,   \* documents table: d_id -> row
  employees,   \* employees table: e_id -> row
  tz,          \* UTC offset (hours) of the browser that runs the page
  clock,       \* index into ClockDays: the local calendar day "now"
  busy,        \* useState busy
  status,      \* useState status
  rows,        \* useState rows: the values of the report table
  pc,          \* position of runBatch: idle, readDocs, readEmps, compute, write
  allDocs,     \* runBatch local: the documents as read, ordered by d_id
  empMap,      \* runBatch local: e_id -> employee as read
  ei,          \* runBatch local: index of the next employee chunk to read
  today,       \* runBatch local: new Date() taken after the reads
  updates,     \* runBatch local: queued updates
  wi,          \* runBatch local: index of the next queued update to issue
  written,     \* history: d_ids of the updates applied by the current run
  tainted,     \* history: a table changed from outside since the run began
  quiet,       \* history: successful runs in a row without outside change (0..2)
  quietDay,    \* history: today of the last successful run
  empLhold,    \* employees table, column e_lhold: e_id -> "true" / "false"
  lhBusy,      \* legal hold page: useState busy
  lhStatus,    \* legal hold page: useState status
  lhRows,      \* legal hold page: useState rows
  lhPc,        \* legal hold page: position of runBatch
  lh,          \* legal hold page: the locals of runBatch
  lhHist,      \* history: hold column at the start of the run, outside
               \* changes since, the update calls issued by the run
  runHist,     \* history, kept where runs are repeated or follow each
               \* other: the tables before the failed runs the current
               \* run repeats, their today, and whether the retention run
               \* began on the result of a legal hold run
  second       \* the legal hold page open in a second browser: its busy,
               \* status and rows, the position and the locals of its
               \* runBatch, and as history how many update calls the first
               \* page had issued when its run ended and whether it wrote
               \* while the first page had its writes pending

vars == <<documents, employees, tz, clock, busy, status, rows, pc, allDocs,
          empMap, ei, today, updates, wi, written, tainted, quiet, quietDay,
          empLhold, lhBusy, lhStatus, lhRows, lhPc, lh, lhHist, runHist,
          second>>

NULL == "<null>"

\* ---------------------------------------------------------------------
\* Calendar of the JS Date object
\* ---------------------------------------------------------------------
IsLeap(y) == (y % 4 = 0 /\ y % 100 # 0) \/ y % 400 = 0

DaysIn(y, m) ==
  CASE m \in {1, 3, 5, 7, 8, 10, 12} -> 31
    [] m \in {4, 6, 9, 11} -> 30
    [] OTHER -> IF IsLeap(y) THEN 29 ELSE 28

InvalidDate == [valid |-> FALSE, y |-> 0, m |-> 0, d |-> 0]

\* new Date(y, monthIndex, day) in local time: monthIndex may lie outside
\* 0..11 and day may be 0 or run past the end of the month (by less than
\* one month); the date is normalised the way MakeDay/MakeDate do.
MakeLocal(y, mi, day) ==
  LET yy == y + (mi \div 12)
      mm == (mi % 12) + 1
      py == IF mm = 1 THEN yy - 1 ELSE yy
      pm == IF mm = 1 THEN 12 ELSE mm - 1
      ny == IF mm = 12 THEN yy + 1 ELSE yy
      nm == IF mm = 12 THEN 1 ELSE mm + 1
  IN  IF day < 1
        THEN [valid |-> TRUE, y |-> py, m |-> pm, d |-> DaysIn(py, pm) + day]
        ELSE IF day > DaysIn(yy, mm)
          THEN [valid |-> TRUE, y |-> ny, m |-> nm, d |-> day - DaysIn(yy, mm)]
          ELSE [valid |-> TRUE, y |-> yy, m |-> mm, d |-> day]

\* Date.prototype.setMonth / setDate on the local fields
setMonth(dt, mi) == MakeLocal(dt.y, mi, dt.d)
setDate(dt, day) == MakeLocal(dt.y, dt.m - 1, day)

\* order of two valid dates by calendar day
DayLess(a, b) ==
  \/ a.y < b.y
  \/ a.y = b.y /\ a.m < b.m
  \/ a.y = b.y /\ a.m = b.m /\ a.d < b.d

\* ---------------------------------------------------------------------
\* Pure helpers of page.tsx
\* ---------------------------------------------------------------------
pad2(n) == IF n < 10 THEN "0" \o ToString(n) ELSE ToString(n)

toISODate(dt) == ToString(dt.y) \o "-" \o pad2(dt.m) \o "-" \o pad2(dt.d)

\* dateOnlyTs(a) < dateOnlyTs(b): both are local midnights
isExpiredPerSpec_strictDropped(deletion, tdy) == ~ DayLess(tdy, deletion)
isExpiredPerSpec(deletion, tdy) == DayLess(deletion, tdy)

addMonths_noClamp(base, months) == setMonth(base, (base.m - 1) + months)
addMonths(base, months) ==
  LET day == base.d
      d1  == setMonth(base, (base.m - 1) + months)
  IN  IF d1.d < day THEN setDate(d1, 0) ELSE d1

Min(a, b) == IF a < b THEN a ELSE b

chunk(arr, size) ==
  [k \in 1..((Len(arr) + size - 1) \div size) |->
     SubSeq(arr, (k - 1) * size + 1, Min(k * size, Len(arr)))]

\* ---------------------------------------------------------------------
\* JS values
\* ---------------------------------------------------------------------
\* truthiness of a string-or-null value (d.e_id, emp.e_tdate, d.d_date)
truthy(s) == s # NULL /\ s # ""

\* String.prototype.trim on the strings that occur in the tables
trim(s) ==
  CASE s = " Termination " -> "Termination"
    [] s = "TERMINATED "   -> "TERMINATED"
    [] s = "  "            -> ""
    [] OTHER               -> s

\* String.prototype.toLowerCase on the strings that occur in the tables
toLowerCase(s) ==
  CASE s = "Termination"    -> "termination"
    [] s = "Cassation Date" -> "cassation date"
    [] s = "TERMINATED"     -> "terminated"
    [] s = "Terminated"     -> "terminated"
    [] s = "Active"         -> "active"
    [] s = "Other"          -> "other"
    [] OTHER                -> s

norm(s) == IF s = NULL THEN "" ELSE trim(s)

\* A d_r_month cell as delivered by the store: a JSON number, null, or a
\* value Number() cannot convert (text).
Num(n)   == [kind |-> "number", n |-> n]
NullNum  == [kind |-> "null", n |-> 0]
TextNum  == [kind |-> "text", n |-> 0]

\* Number(v): null converts to 0, non-numeric text to NaN
Number(v) ==
  [finite |-> v.kind # "text", n |-> IF v.kind = "number" THEN v.n ELSE 0]

\* The date strings of the tables.  A date column reads "YYYY-MM-DD", a
\* timestamptz column "YYYY-MM-DDTHH:00:00+00:00".
StampDays  == {<<2023, 1, 31>>, <<2024, 1, 31>>, <<2024, 3, 1>>}
StampHours == {0, 12}
isoDay(t)      == ToString(t[1]) \o "-" \o pad2(t[2]) \o "-" \o pad2(t[3])
isoStamp(t, h) == isoDay(t) \o "T" \o pad2(h) \o ":00:00+00:00"

\* new Date(s): a date-only string is UTC midnight, a timestamp is the
\* instant it names; the Date's local fields are those of that instant in
\* the zone of the browser.  Any other string gives Invalid Date.
newDate(s, zone) ==
  LET hits == {p \in StampDays \X StampHours :
                 \/ p[2] = 0 /\ s = isoDay(p[1])
                 \/ s = isoStamp(p[1], p[2])}
  IN  IF hits = {} THEN InvalidDate
      ELSE LET p == CHOOSE q \in hits : TRUE
           IN  MakeLocal(p[1][1], p[1][2] - 1, p[1][3] + ((p[2] + zone) \div 24))

\* ---------------------------------------------------------------------
\* The classification of one document (body of the loop of runBatch)
\* ---------------------------------------------------------------------
isHeld_never(d) == FALSE
isHeld_afterTrigger(d) == d.e_lhold = "true" /\ norm(d.d_r_trigger) # ""
isHeld(d) == d.e_lhold = "true"

NoEmp == [found |-> FALSE, e_status |-> NULL, e_tdate |-> NULL]

\* d.e_id ? empMap.get(d.e_id) : undefined
lookupEmp(d, emap) ==
  IF truthy(d.e_id) /\ d.e_id \in DOMAIN emap
    THEN [found |-> TRUE, e_status |-> emap[d.e_id].e_status,
          e_tdate |-> emap[d.e_id].e_tdate]
    ELSE NoEmp

isTerminated_found(emp) == emp.found
isTerminated(emp) ==
  emp.found /\ toLowerCase(norm(emp.e_status)) = "terminated"

NotStarted == [status |-> "not started", deletion |-> NULL]

\* deletion = base + months, status by isExpiredPerSpec
dated_statusOnly(base, months, tdy) ==
  [status   |-> IF isExpiredPerSpec(addMonths(base, months), tdy)
                  THEN "expired" ELSE "started",
   deletion |-> NULL]
dated(base, months, tdy) ==
  LET del == addMonths(base, months)
  IN  [status   |-> IF isExpiredPerSpec(del, tdy) THEN "expired" ELSE "started",
       deletion |-> toISODate(del)]

resolveDoc(d, emap, tdy, zone) ==
  IF isHeld(d) THEN [status |-> "legal hold", deletion |-> NULL]
  ELSE
    LET trig   == toLowerCase(norm(d.d_r_trigger))
        months == Number(d.d_r_month)
    IN  IF trig = "" \/ ~ months.finite THEN NotStarted
        ELSE IF trig = "termination" THEN
          LET emp == lookupEmp(d, emap) IN
          IF ~ emp.found \/ ~ isTerminated(emp) THEN NotStarted
          ELSE
            LET tdate == IF truthy(emp.e_tdate) THEN newDate(emp.e_tdate, zone)
                         ELSE InvalidDate
            IN  IF ~ tdate.valid THEN NotStarted
                ELSE dated(tdate, months.n, tdy)
        ELSE IF trig = "cassation date" THEN
          LET base == IF truthy(d.d_date) THEN newDate(d.d_date, zone)
                      ELSE InvalidDate
          IN  IF ~ base.valid THEN NotStarted
              ELSE dated(base, months.n, tdy)
        ELSE NotStarted

\* newDeletion ?? ""
orBlank(s) == IF s = NULL THEN "" ELSE s

changed_always(d, new) == TRUE
changed_deletionOnly(d, new) == norm(d.d_r_deletion) # orBlank(new.deletion)
changed_statusOnly(d, new) == norm(d.d_r_status) # new.status
changed(d, new) ==
  \/ norm(d.d_r_status) # new.status
  \/ norm(d.d_r_deletion) # orBlank(new.deletion)

\* ---------------------------------------------------------------------
\* The tables and the clock
\* ---------------------------------------------------------------------
\* local calendar days the wall clock passes through
ClockDays ==
  << [valid |-> TRUE, y |-> 2024, m |-> 1, d |-> 30],
     [valid |-> TRUE, y |-> 2024, m |-> 1, d |-> 31],
     [valid |-> TRUE, y |-> 2024, m |-> 2, d |-> 1] >>

\* browsers west of Greenwich (UTC-5) and on UTC
Zones == {-5, 0}

DocOrder == <<"D1", "D2">>

\* employee rows: a status in any spelling, a termination date, none, or
\* one that is no date
RichEmpRows ==
  {[e_status |-> "Active", e_tdate |-> isoDay(<<2023, 1, 31>>)],
   [e_status |-> NULL, e_tdate |-> isoDay(<<2023, 1, 31>>)]} \cup
  {[e_status |-> "TERMINATED ", e_tdate |-> t] :
     t \in {NULL, "n/a", isoDay(<<2023, 1, 31>>), isoDay(<<2024, 3, 1>>)}}

EIdVals     == {NULL, "E1", "E9"}
TriggerVals == {"  ", " Termination ", "Cassation Date", "Other"}
MonthVals   == {NullNum, TextNum, Num(-1), Num(1), Num(12)}
DDateVals   == {"bad", isoStamp(<<2024, 1, 31>>, 12), isoStamp(<<2024, 3, 1>>, 0)}

EmpRow(s, t) == [e_status |-> s, e_tdate |-> t]

DocRow(e, h, dd, tr, mo, st) ==
  [e_id |-> e, e_lhold |-> h, d_date |-> dd, d_r_trigger |-> tr,
   d_r_month |-> mo, d_r_deletion |-> NULL, d_r_status |-> st]

\* one document drawn from the whole input space
OneDocTables ==
  {[d \in {"D1"} |-> DocRow(e, h, dd, tr, mo, "not started")] :
     e \in EIdVals, h \in {"true", "false"}, dd \in DDateVals,
     tr \in TriggerVals, mo \in MonthVals}

\* a row as the upload flows or a legacy import left it
FreshRows ==
  {DocRow("E1", h, isoStamp(<<2024, 1, 31>>, 12), tr, Num(12), st) :
     h \in {"true", "false"}, tr \in {"Termination", "Cassation Date"},
     st \in {"not set", "not started", NULL}}

TwoDocTables == [{"D1", "D2"} -> FreshRows]

BlankRows ==
  [start |-> "", total |-> "", updated |-> "", notset |-> "",
   notstarted |-> "", started |-> "", legalhold |-> "", expired |-> "",
   end |-> "", duration |-> ""]

NoMap == [e \in {} |-> EmpRow(NULL, NULL)]

\* the value column of the report table of the legal hold page
LhBlankRows ==
  [start |-> "", empNo |-> "", empYes |-> "", empTotal |-> "",
   activated |-> "", removed |-> "", docNo |-> "", docYes |-> "",
   docTotal |-> "", end |-> "", duration |-> ""]

\* the locals of runBatch of the legal hold page before their assignment
LhNoLocals ==
  [toActivate |-> <<>>, empYesSet |-> {}, activateDocIds |-> <<>>,
   toRemove |-> <<>>, empNoSet |-> {}, removeDocIds |-> <<>>,
   activated |-> 0, removed |-> 0, bi |-> 1]

NoHist == [docs0 |-> [d \in {} |-> "false"], tainted |-> FALSE, calls |-> <<>>]

NoRunHist ==
  [base |-> [d \in {} |-> "false"], day |-> InvalidDate, chained |-> FALSE,
   partial |-> FALSE, afterHold |-> FALSE,
   lhBase |-> [d \in {} |-> "false"], lhChained |-> FALSE,
   lhPartial |-> FALSE]

\* the second page instance before its first run
NoSecond ==
  [busy |-> FALSE, status |-> "", rows |-> LhBlankRows, pc |-> "idle",
   lh |-> LhNoLocals, seen |-> 0, overlap |-> FALSE]

LhPageInit ==
  /\ second = NoSecond
  /\ lhBusy = FALSE
  /\ lhStatus = ""
  /\ lhRows = LhBlankRows
  /\ lhPc = "idle"
  /\ lh = LhNoLocals
  /\ lhHist = NoHist

PageInit ==
  /\ busy = FALSE
  /\ status = ""
  /\ rows = BlankRows
  /\ pc = "idle"
  /\ allDocs = <<>>
  /\ empMap = NoMap
  /\ ei = 1
  /\ today = InvalidDate
  /\ updates = <<>>
  /\ wi = 1
  /\ written = <<>>
  /\ tainted = FALSE
  /\ quiet = 0
  /\ quietDay = InvalidDate
  /\ runHist = NoRunHist

\* two freshly stored documents of one employee
Init ==
  /\ documents \in TwoDocTables
  /\ employees \in [{"E1"} -> {EmpRow("Active", NULL),
                               EmpRow("Terminated", isoDay(<<2023, 1, 31>>))}]
  /\ tz \in Zones
  /\ clock = 1
  /\ PageInit
  /\ empLhold = [e \in {"E1"} |-> "false"]
  /\ LhPageInit

\* one document, one employee, the zone and the day drawn from the whole
\* input space of the classification
InitResolve ==
  /\ documents \in OneDocTables
  /\ employees \in [{"E1"} -> RichEmpRows]
  /\ tz \in Zones
  /\ clock \in 1..Len(ClockDays)
  /\ PageInit
  /\ empLhold = [e \in {"E1"} |-> "false"]
  /\ LhPageInit

\* ---------------------------------------------------------------------
\* runBatch of the retention page, one action per awaited store call
\* ---------------------------------------------------------------------
EmpChunkSize == 500
UpdChunkSize == 200

\* select(...).order("d_id"): the rows of the table in d_id order
selectDocs(tbl) ==
  LET ids == SelectSeq(DocOrder, LAMBDA i : i \in DOMAIN tbl)
  IN  [k \in 1..Len(ids) |->
        [d_id |-> ids[k], e_id |-> tbl[ids[k]].e_id,
         e_lhold |-> tbl[ids[k]].e_lhold, d_date |-> tbl[ids[k]].d_date,
         d_r_trigger |-> tbl[ids[k]].d_r_trigger,
         d_r_month |-> tbl[ids[k]].d_r_month,
         d_r_deletion |-> tbl[ids[k]].d_r_deletion,
         d_r_status |-> tbl[ids[k]].d_r_status]]

\* Array.from(new Set(allDocs.map(d => d.e_id).filter(Boolean)))
eIdsOf(docs) ==
  LET idx == [i \in 1..Len(docs) |-> [i |-> i, id |-> docs[i].e_id]]
      first(r) == truthy(r.id) /\ \A j \in 1..(r.i - 1) : docs[j].e_id # r.id
      sel == SelectSeq(idx, first)
  IN  [k \in 1..Len(sel) |-> sel[k].id]

empChunks(docs) == chunk(eIdsOf(docs), EmpChunkSize)

\* the updates array built by the loop over allDocs
updatesOf(docs, emap, tdy, zone) ==
  LET need(d) == truthy(d.d_id) /\ changed(d, resolveDoc(d, emap, tdy, zone))
      sel == SelectSeq(docs, need)
  IN  [k \in 1..Len(sel) |->
        [d_id |-> sel[k].d_id,
         d_r_status |-> resolveDoc(sel[k], emap, tdy, zone).status,
         d_r_deletion |-> resolveDoc(sel[k], emap, tdy, zone).deletion]]

\* statusCounts[s] after the loop
statusCount_asStored(docs, emap, tdy, zone, s) ==
  Cardinality({i \in 1..Len(docs) :
                 truthy(docs[i].d_id) /\ orBlank(docs[i].d_r_status) = s})
statusCount(docs, emap, tdy, zone, s) ==
  Cardinality({i \in 1..Len(docs) :
                 /\ truthy(docs[i].d_id)
                 /\ resolveDoc(docs[i], emap, tdy, zone).status = s})

\* the k-th update in the order of the nested loops over chunk(updates, 200)
nthUpdate(upd, k) ==
  chunk(upd, UpdChunkSize)[((k - 1) \div UpdChunkSize) + 1][((k - 1) % UpdChunkSize) + 1]

History == <<written, tainted, quiet, quietDay>>
Tables  == <<documents, employees>>
Locals  == <<allDocs, empMap, ei, today, updates, wi>>
HoldPage == <<lhBusy, lhStatus, lhRows, lhPc, lh, lhHist>>
HoldSide == <<empLhold, HoldPage, second>>

\* runBatch up to the first await
StartRun ==
  /\ ~ busy
  /\ busy' = TRUE
  /\ status' = ""
  /\ rows' = [BlankRows EXCEPT !.start = "hh:mm:ss.mmm"]
  /\ pc' = "readDocs"
  /\ allDocs' = <<>> /\ empMap' = NoMap /\ ei' = 1 /\ today' = InvalidDate
  /\ updates' = <<>> /\ wi' = 1
  /\ written' = <<>> /\ tainted' = FALSE
  /\ UNCHANGED <<Tables, tz, clock, quiet, quietDay>>
  /\ UNCHANGED HoldSide

Start == StartRun /\ UNCHANGED runHist

\* Start, with the history of repeated runs kept
StartAgain ==
  /\ StartRun
  /\ LET again == /\ status = "Error: store"
                  /\ ~ tainted
                  /\ \/ ~ runHist.day.valid
                     \/ ~ today.valid
                     \/ runHist.day = today
     IN  runHist' =
           [runHist EXCEPT
              !.base      = IF again THEN runHist.base ELSE documents,
              !.day       = IF ~ again THEN InvalidDate
                            ELSE IF today.valid THEN today ELSE runHist.day,
              !.chained   = again,
              !.partial   = again /\ (runHist.partial \/ written # <<>>),
              !.afterHold =
                 /\ lhPc = "idle"
                 /\ lhStatus = "Successful: Legal Hold batch finished."
                 /\ ~ lhHist.tainted]

\* where runBatch is after the catch and finally blocks: it has returned
afterError_carriesOn(at) == IF at = "write" THEN "finish" ELSE "compute"
afterError_retries(at) == at
afterError(at) == "idle"

\* catch + finally
Fail_noFinally ==
  /\ status' = "Error: store"
  /\ busy' = busy
  /\ pc' = afterError(pc)
  /\ quiet' = 0
  /\ UNCHANGED <<Tables, tz, clock, rows, Locals, written, tainted, quietDay>>
  /\ UNCHANGED <<HoldSide, runHist>>
Fail ==
  /\ status' = "Error: store"
  /\ busy' = FALSE
  /\ pc' = afterError(pc)
  /\ quiet' = 0
  /\ UNCHANGED <<Tables, tz, clock, rows, Locals, written, tainted, quietDay>>
  /\ UNCHANGED <<HoldSide, runHist>>

ReadDocs ==
  /\ pc = "readDocs"
  /\ allDocs' = selectDocs(documents)
  /\ rows' = [rows EXCEPT !.total = ToString(Len(allDocs'))]
  /\ pc' = IF Len(empChunks(allDocs')) = 0 THEN "compute" ELSE "readEmps"
  /\ UNCHANGED <<Tables, tz, clock, busy, status, empMap, ei, today, updates,
                 wi, History>>
  /\ UNCHANGED <<HoldSide, runHist>>

ReadDocsError == pc = "readDocs" /\ Fail

ReadEmps ==
  /\ pc = "readEmps"
  /\ LET part  == empChunks(allDocs)[ei]
         found == {part[k] : k \in 1..Len(part)} \cap DOMAIN employees
     IN  empMap' = [e \in DOMAIN empMap \cup found |->
                      IF e \in found THEN employees[e] ELSE empMap[e]]
  /\ ei' = ei + 1
  /\ pc' = IF ei = Len(empChunks(allDocs)) THEN "compute" ELSE "readEmps"
  /\ UNCHANGED <<Tables, tz, clock, busy, status, rows, allDocs, today,
                 updates, wi, History>>
  /\ UNCHANGED <<HoldSide, runHist>>

ReadEmpsError == pc = "readEmps" /\ Fail

\* today, the loop over allDocs and the count rows of the report
Compute ==
  /\ pc = "compute"
  /\ today' = ClockDays[clock]
  /\ updates' = updatesOf(allDocs, empMap, today', tz)
  /\ rows' = [rows EXCEPT
       !.updated    = ToString(Len(updates')),
       !.notset     = ToString(statusCount(allDocs, empMap, today', tz, "not set")),
       !.notstarted = ToString(statusCount(allDocs, empMap, today', tz, "not started")),
       !.started    = ToString(statusCount(allDocs, empMap, today', tz, "started")),
       !.legalhold  = ToString(statusCount(allDocs, empMap, today', tz, "legal hold")),
       !.expired    = ToString(statusCount(allDocs, empMap, today', tz, "expired"))]
  /\ pc' = IF Len(updates') = 0 THEN "finish" ELSE "write"
  /\ UNCHANGED <<Tables, tz, clock, busy, status, allDocs, empMap, ei, wi,
                 History>>
  /\ UNCHANGED <<HoldSide, runHist>>

\* update({d_r_status, d_r_deletion}).eq("d_id", u.d_id)
WriteUpdate ==
  /\ pc = "write"
  /\ LET u == nthUpdate(updates, wi)
     IN  /\ documents' =
              [i \in DOMAIN documents |->
                 IF i = u.d_id
                   THEN [documents[i] EXCEPT !.d_r_status = u.d_r_status,
                                             !.d_r_deletion = u.d_r_deletion]
                   ELSE documents[i]]
         /\ written' = Append(written, u.d_id)
  /\ wi' = wi + 1
  /\ pc' = IF wi = Len(updates) THEN "finish" ELSE "write"
  /\ UNCHANGED <<employees, tz, clock, busy, status, rows, allDocs, empMap,
                 ei, today, updates, tainted, quiet, quietDay>>
  /\ UNCHANGED <<HoldSide, runHist>>

WriteUpdateError == pc = "write" /\ Fail

\* end of the try block and finally
Finish ==
  /\ pc = "finish"
  /\ rows' = [rows EXCEPT !.end = "hh:mm:ss.mmm", !.duration = "n ms"]
  /\ status' = "Successful: Retention batch finished."
  /\ busy' = FALSE
  /\ pc' = "idle"
  /\ quiet' = IF tainted THEN 0 ELSE IF quiet < 2 THEN quiet + 1 ELSE 2
  /\ quietDay' = today
  /\ UNCHANGED <<Tables, tz, clock, Locals, written, tainted>>
  /\ UNCHANGED <<HoldSide, runHist>>

\* ---------------------------------------------------------------------
\* The world around the page
\* ---------------------------------------------------------------------
\* the wall clock reaches the next day
Tick ==
  /\ clock < Len(ClockDays)
  /\ clock' = clock + 1
  /\ UNCHANGED <<Tables, tz, busy, status, rows, pc, Locals, History>>
  /\ UNCHANGED <<HoldSide, runHist>>

\* the Employee Directory changes an employee (termination, rehire, a
\* corrected termination date)
EmployeeChange ==
  /\ \E e \in DOMAIN employees :
       \E r \in {EmpRow("Active", NULL),
                 EmpRow("Terminated", isoDay(<<2023, 1, 31>>)),
                 EmpRow("Terminated", isoDay(<<2024, 3, 1>>))} :
         /\ r # employees[e]
         /\ employees' = [employees EXCEPT ![e] = r]
  /\ tainted' = TRUE
  /\ quiet' = 0
  /\ UNCHANGED <<documents, tz, clock, busy, status, rows, pc, Locals,
                 written, quietDay>>
  /\ UNCHANGED <<HoldSide, runHist>>

Next ==
  \/ Start
  \/ ReadDocs
  \/ ReadDocsError
  \/ ReadEmps
  \/ ReadEmpsError
  \/ Compute
  \/ WriteUpdate
  \/ WriteUpdateError
  \/ Finish
  \/ Tick
  \/ EmployeeChange

Spec == Init /\ [][Next]_vars

\* the page alone, on fixed tables and a fixed day
NextResolve ==
  \/ Start
  \/ ReadDocs
  \/ ReadDocsError
  \/ ReadEmps
  \/ ReadEmpsError
  \/ Compute
  \/ WriteUpdate
  \/ WriteUpdateError
  \/ Finish

SpecResolve == InitResolve /\ [][NextResolve]_vars

\* ---------------------------------------------------------------------
\* runBatch of the legal hold page, one action per awaited store call
\* ---------------------------------------------------------------------
LhChunkSize == 500

\* one document more than one update call carries
ManyDocs == LhChunkSize + 1

\* the d_id values in the order the store returns rows
DocIdOrder == [i \in 1..ManyDocs |-> "D" \o ToString(i)]

\* select("d_id, e_id").eq("e_lhold", h) on documents
selectByHold(tbl, h) ==
  LET ids == SelectSeq(DocIdOrder,
                       LAMBDA i : i \in DOMAIN tbl /\ tbl[i].e_lhold = h)
  IN  [k \in 1..Len(ids) |-> [d_id |-> ids[k], e_id |-> tbl[ids[k]].e_id]]

\* select("e_id").eq("e_lhold", h) on employees, as a Set
employeesByHold_unfiltered(col, h) == DOMAIN col
employeesByHold(col, h) == {e \in DOMAIN col : col[e] = h}

\* select(..., {count: "exact", head: true}).eq("e_lhold", h)
countByHold(col, h) == Cardinality({k \in DOMAIN col : col[k] = h})

\* the e_lhold column of the documents table
holdColumn(tbl) == [d \in DOMAIN tbl |-> tbl[d].e_lhold]

\* rows.filter(d => d.e_id && set.has(String(d.e_id))).map(d => String(d.d_id))
idsOfMatching_anyEmployee(rws, set) ==
  LET sel == SelectSeq(rws, LAMBDA d : truthy(d.e_id))
  IN  [k \in 1..Len(sel) |-> sel[k].d_id]
idsOfMatching(rws, set) ==
  LET sel == SelectSeq(rws, LAMBDA d : truthy(d.e_id) /\ d.e_id \in set)
  IN  [k \in 1..Len(sel) |-> sel[k].d_id]

\* the chunks an update call is issued for: chunk(ids, 500) without the
\* empty ones
lhBatches_oneMore(ids) ==
  SelectSeq(chunk(ids, LhChunkSize + 1), LAMBDA c : Len(c) # 0)
lhBatches(ids) ==
  SelectSeq(chunk(ids, LhChunkSize), LAMBDA c : Len(c) # 0)

\* activated += ids.length, removed += ids.length
addCount_perCall(n, ids) == n + 1
addCount(n, ids) == n + Len(ids)

\* the value the second loop writes
removeValue_asActivate == "true"
removeValue == "false"

\* update({e_lhold: v}).in("d_id", ids)
updateHold_withStatus(tbl, ids, v) ==
  [d \in DOMAIN tbl |->
     IF \E k \in 1..Len(ids) : ids[k] = d
       THEN [tbl[d] EXCEPT !.e_lhold = v,
                           !.d_r_status = IF v = "true" THEN "legal hold" ELSE @]
       ELSE tbl[d]]
updateHold_unfiltered(tbl, ids, v) ==
  [d \in DOMAIN tbl |-> [tbl[d] EXCEPT !.e_lhold = v]]
updateHold(tbl, ids, v) ==
  [d \in DOMAIN tbl |->
     IF \E k \in 1..Len(ids) : ids[k] = d
       THEN [tbl[d] EXCEPT !.e_lhold = v]
       ELSE tbl[d]]

\* the position after the selects, or after a loop: the next loop that
\* has a batch, or the counts
lhAfterSelects(l) ==
  IF Len(lhBatches(l.activateDocIds)) > 0 THEN "actWrite"
  ELSE IF Len(lhBatches(l.removeDocIds)) > 0 THEN "remWrite"
  ELSE "docCounts"

lhAfterActivate(l) ==
  IF Len(lhBatches(l.removeDocIds)) > 0 THEN "remWrite" ELSE "docCounts"

\* setValue of the two change counts, once both loops are over
lhChangeRows(rws, l, at) ==
  IF at = "docCounts"
    THEN [rws EXCEPT !.activated = ToString(l.activated),
                     !.removed = ToString(l.removed)]
    ELSE rws

RetSide == <<tz, clock, busy, status, rows, pc, Locals, written, quietDay>>
RetPage == <<RetSide, tainted, quiet>>

\* where runBatch is after the catch and finally blocks: it has returned
lhAfterError_carriesOn(at) == IF at = "actWrite" THEN "remWrite" ELSE "docCounts"
lhAfterError(at) == "idle"

\* runBatch up to the first await
LhStartRun ==
  /\ ~ lhBusy
  /\ lhBusy' = TRUE
  /\ lhStatus' = ""
  /\ lhRows' = [LhBlankRows EXCEPT !.start = "hh:mm:ss.mmm"]
  /\ lhPc' = "empCounts"
  /\ lh' = LhNoLocals
  /\ lhHist' = [docs0 |-> holdColumn(documents), tainted |-> FALSE,
                calls |-> <<>>]
  /\ UNCHANGED <<Tables, empLhold, RetPage>>
  /\ UNCHANGED second

LhStart == LhStartRun /\ UNCHANGED runHist

\* LhStart, with the history of repeated runs kept
LhStartAgain ==
  /\ LhStartRun
  /\ LET again == lhStatus = "Error: store" /\ ~ lhHist.tainted
         some(calls) == \E k \in 1..Len(calls) : calls[k].ok
     IN  runHist' =
           [runHist EXCEPT
              !.lhBase    = IF again THEN runHist.lhBase
                            ELSE holdColumn(documents),
              !.lhChained = again,
              !.lhPartial = again /\ (runHist.lhPartial \/ some(lhHist.calls))]

\* catch + finally
LhFail ==
  /\ lhStatus' = "Error: store"
  /\ lhBusy' = FALSE
  /\ lhPc' = lhAfterError(lhPc)
  /\ UNCHANGED <<Tables, empLhold, lhRows, lh, RetPage>>
  /\ UNCHANGED <<runHist, second>>

\* 1) the three employee counts
LhEmpCounts ==
  /\ lhPc = "empCounts"
  /\ lhRows' = [lhRows EXCEPT
       !.empNo    = ToString(countByHold(empLhold, "false")),
       !.empYes   = ToString(countByHold(empLhold, "true")),
       !.empTotal = ToString(Cardinality(DOMAIN empLhold))]
  /\ lhPc' = "selAct"
  /\ UNCHANGED <<Tables, empLhold, lhBusy, lhStatus, lh, lhHist, RetPage>>
  /\ UNCHANGED <<runHist, second>>

\* 2) documents with e_lhold = false
LhSelectToActivate ==
  /\ lhPc = "selAct"
  /\ lh' = [lh EXCEPT !.toActivate = selectByHold(documents, "false")]
  /\ lhPc' = "selEmpYes"
  /\ UNCHANGED <<Tables, empLhold, lhBusy, lhStatus, lhRows, lhHist, RetPage>>
  /\ UNCHANGED <<runHist, second>>

\* employees with e_lhold = true, and activateDocIds
LhSelectEmpYes ==
  /\ lhPc = "selEmpYes"
  /\ LET set == employeesByHold(empLhold, "true")
     IN  lh' = [lh EXCEPT !.empYesSet = set,
                          !.activateDocIds = idsOfMatching(lh.toActivate, set)]
  /\ lhPc' = "selRem"
  /\ UNCHANGED <<Tables, empLhold, lhBusy, lhStatus, lhRows, lhHist, RetPage>>
  /\ UNCHANGED <<runHist, second>>

\* documents with e_lhold = true
LhSelectToRemove ==
  /\ lhPc = "selRem"
  /\ lh' = [lh EXCEPT !.toRemove = selectByHold(documents, "true")]
  /\ lhPc' = "selEmpNo"
  /\ UNCHANGED <<Tables, empLhold, lhBusy, lhStatus, lhRows, lhHist, RetPage>>
  /\ UNCHANGED <<runHist, second>>

\* employees with e_lhold = false, removeDocIds, and the loops when no
\* batch is to be written
LhSelectEmpNo ==
  /\ lhPc = "selEmpNo"
  /\ LET set == employeesByHold(empLhold, "false")
     IN  lh' = [lh EXCEPT !.empNoSet = set,
                          !.removeDocIds = idsOfMatching(lh.toRemove, set)]
  /\ lhPc' = lhAfterSelects(lh')
  /\ lhRows' = lhChangeRows(lhRows, lh', lhPc')
  /\ UNCHANGED <<Tables, empLhold, lhBusy, lhStatus, lhHist, RetPage>>
  /\ UNCHANGED <<runHist, second>>

\* 3) one update call of the first loop
LhActivateBatch ==
  /\ lhPc = "actWrite"
  /\ LET ids == lhBatches(lh.activateDocIds)[lh.bi]
         last == lh.bi = Len(lhBatches(lh.activateDocIds))
     IN  /\ documents' = updateHold(documents, ids, "true")
         /\ lh' = [lh EXCEPT !.activated = addCount(lh.activated, ids),
                             !.bi = IF last THEN 1 ELSE lh.bi + 1]
         /\ lhPc' = IF last THEN lhAfterActivate(lh) ELSE "actWrite"
         /\ lhHist' = [lhHist EXCEPT !.calls =
              Append(@, [ids |-> ids, value |-> "true", ok |-> TRUE])]
  /\ lhRows' = lhChangeRows(lhRows, lh', lhPc')
  /\ tainted' = TRUE
  /\ quiet' = 0
  /\ UNCHANGED <<employees, empLhold, lhBusy, lhStatus, RetSide>>
  /\ UNCHANGED <<runHist, second>>

\* one update call of the second loop
LhRemoveBatch ==
  /\ lhPc = "remWrite"
  /\ LET ids == lhBatches(lh.removeDocIds)[lh.bi]
         last == lh.bi = Len(lhBatches(lh.removeDocIds))
     IN  /\ documents' = updateHold(documents, ids, removeValue)
         /\ lh' = [lh EXCEPT !.removed = addCount(lh.removed, ids),
                             !.bi = IF last THEN 1 ELSE lh.bi + 1]
         /\ lhPc' = IF last THEN "docCounts" ELSE "remWrite"
         /\ lhHist' = [lhHist EXCEPT !.calls =
              Append(@, [ids |-> ids, value |-> removeValue, ok |-> TRUE])]
  /\ lhRows' = lhChangeRows(lhRows, lh', lhPc')
  /\ tainted' = TRUE
  /\ quiet' = 0
  /\ UNCHANGED <<employees, empLhold, lhBusy, lhStatus, RetSide>>
  /\ UNCHANGED <<runHist, second>>

\* 4) the three document counts, 5) the end of the try block, finally
LhDocCounts ==
  /\ lhPc = "docCounts"
  /\ lhRows' = [lhRows EXCEPT
       !.docNo    = ToString(countByHold(holdColumn(documents), "false")),
       !.docYes   = ToString(countByHold(holdColumn(documents), "true")),
       !.docTotal = ToString(Cardinality(DOMAIN documents)),
       !.end      = "hh:mm:ss.mmm",
       !.duration = "n ms"]
  /\ lhStatus' = "Successful: Legal Hold batch finished."
  /\ lhBusy' = FALSE
  /\ lhPc' = "idle"
  /\ UNCHANGED <<Tables, empLhold, lh, lhHist, RetPage>>
  /\ UNCHANGED <<runHist, second>>

\* a count or select call returns an error
LhReadError ==
  /\ lhPc \in {"empCounts", "selAct", "selEmpYes", "selRem", "selEmpNo",
               "docCounts"}
  /\ LhFail
  /\ UNCHANGED lhHist

\* an update call returns an error
LhWriteError ==
  /\ lhPc \in {"actWrite", "remWrite"}
  /\ LET act == lhPc = "actWrite"
         ids == IF act THEN lhBatches(lh.activateDocIds)[lh.bi]
                       ELSE lhBatches(lh.removeDocIds)[lh.bi]
     IN  lhHist' = [lhHist EXCEPT !.calls =
           Append(@, [ids |-> ids,
                      value |-> IF act THEN "true" ELSE removeValue,
                      ok |-> FALSE])]
  /\ LhFail

\* ---------------------------------------------------------------------
\* The world around the legal hold page
\* ---------------------------------------------------------------------
\* the Employee Directory sets or lifts the hold of an employee
EmployeeHoldChange ==
  /\ \E e \in DOMAIN empLhold :
       empLhold' = [empLhold EXCEPT
                      ![e] = IF @ = "true" THEN "false" ELSE "true"]
  /\ lhHist' = [lhHist EXCEPT !.tainted = TRUE]
  /\ tainted' = TRUE
  /\ quiet' = 0
  /\ UNCHANGED <<Tables, lhBusy, lhStatus, lhRows, lhPc, lh, RetSide>>
  /\ UNCHANGED <<runHist, second>>

\* documents the store holds at most once uploads are counted in
UploadRoom == 3

\* the employees documents are uploaded for
UploadFor == {"E1"}

\* POST of the upload API: a document of an existing employee
Upload ==
  /\ Cardinality(DOMAIN documents) < UploadRoom
  /\ \E e \in UploadFor :
       LET id == DocIdOrder[Cardinality(DOMAIN documents) + 1]
           row == DocRow(e, IF empLhold[e] = "true" THEN "true" ELSE "false",
                         isoStamp(<<2024, 1, 31>>, 12), "Termination",
                         Num(12), "not started")
       IN  documents' = [d \in DOMAIN documents \cup {id} |->
                           IF d = id THEN row ELSE documents[d]]
  /\ lhHist' = [lhHist EXCEPT !.tainted = TRUE]
  /\ tainted' = TRUE
  /\ quiet' = 0
  /\ UNCHANGED <<employees, empLhold, lhBusy, lhStatus, lhRows, lhPc, lh,
                 RetSide>>
  /\ UNCHANGED <<runHist, second>>

\* a document as the resolver left it
SettledRow(e, h) ==
  DocRow(e, h, isoStamp(<<2024, 1, 31>>, 12), "Termination", Num(12),
         IF h = "true" THEN "legal hold" ELSE "not started")

\* a document of E1 and a document of E2, of nobody, or of an employee
\* the directory does not know
FewHoldTables ==
  {[d \in {"D1", "D2"} |-> IF d = "D1" THEN SettledRow("E1", h1)
                                       ELSE SettledRow(e2, h2)] :
     h1 \in {"true", "false"}, e2 \in {NULL, "E2", "E9"},
     h2 \in {"true", "false"}}

ManyHoldTable ==
  [d \in {DocIdOrder[i] : i \in 1..ManyDocs} |-> SettledRow("E1", "false")]

\* two documents of two employees, or one batch and a document
InitHold ==
  /\ documents \in FewHoldTables \cup {ManyHoldTable}
  /\ employees = [e \in {"E1", "E2"} |-> EmpRow("Active", NULL)]
  /\ empLhold \in [{"E1", "E2"} -> {"true", "false"}]
  /\ tz = 0
  /\ clock = 1
  /\ PageInit
  /\ LhPageInit

NextHold ==
  \/ LhStart
  \/ LhEmpCounts
  \/ LhSelectToActivate
  \/ LhSelectEmpYes
  \/ LhSelectToRemove
  \/ LhSelectEmpNo
  \/ LhActivateBatch
  \/ LhRemoveBatch
  \/ LhDocCounts
  \/ LhReadError
  \/ LhWriteError
  \/ EmployeeHoldChange
  \/ Upload

SpecHold == InitHold /\ [][NextHold]_vars

\* ---------------------------------------------------------------------
\* The two pages on the same tables
\* ---------------------------------------------------------------------
\* a document of a terminated employee as the resolver left it
MixedRow(e, h) ==
  DocRow(e, h, isoStamp(<<2024, 1, 31>>, 12), "Termination", Num(12),
         IF h = "true" THEN "legal hold" ELSE "not started")

BothTables ==
  {[d \in {"D1", "D2"} |-> IF d = "D1" THEN MixedRow("E1", h1)
                                       ELSE MixedRow("E2", h2)] :
     h1 \in {"true", "false"}, h2 \in {"true", "false"}}

InitBoth ==
  /\ documents \in BothTables
  /\ employees = [e \in {"E1", "E2"} |->
                    EmpRow("Terminated", isoDay(<<2023, 1, 31>>))]
  /\ empLhold \in [{"E1", "E2"} -> {"true", "false"}]
  /\ tz = 0
  /\ clock = 1
  /\ PageInit
  /\ LhPageInit

NextBoth ==
  \/ StartAgain
  \/ ReadDocs
  \/ ReadDocsError
  \/ ReadEmps
  \/ ReadEmpsError
  \/ Compute
  \/ WriteUpdate
  \/ WriteUpdateError
  \/ Finish
  \/ LhStartAgain
  \/ LhEmpCounts
  \/ LhSelectToActivate
  \/ LhSelectEmpYes
  \/ LhSelectToRemove
  \/ LhSelectEmpNo
  \/ LhActivateBatch
  \/ LhRemoveBatch
  \/ LhDocCounts
  \/ LhReadError
  \/ LhWriteError

SpecBoth == InitBoth /\ [][NextBoth]_vars

\* a step of a run in progress: the pending store call returns, with a
\* result or with an error, or the code after the last call runs
RetRunStep ==
  \/ ReadDocs \/ ReadDocsError \/ ReadEmps \/ ReadEmpsError
  \/ Compute \/ WriteUpdate \/ WriteUpdateError \/ Finish

LhRunStep ==
  \/ LhEmpCounts \/ LhSelectToActivate \/ LhSelectEmpYes
  \/ LhSelectToRemove \/ LhSelectEmpNo \/ LhActivateBatch
  \/ LhRemoveBatch \/ LhDocCounts \/ LhReadError \/ LhWriteError

\* a document without a retention trigger
PlainRow(e, h, st) == DocRow(e, h, NULL, "  ", Num(12), st)

\* one document to put on hold and one to release, both with a stored
\* status the resolver has to rewrite
InitFair ==
  /\ documents = [d \in {"D1", "D2"} |->
                    IF d = "D1" THEN PlainRow("E1", "false", "started")
                                ELSE PlainRow("E2", "true", "not started")]
  /\ employees = [e \in {"E1", "E2"} |->
                    EmpRow("Terminated", isoDay(<<2023, 1, 31>>))]
  /\ empLhold = [e \in {"E1", "E2"} |-> IF e = "E1" THEN "true" ELSE "false"]
  /\ tz = 0
  /\ clock = 1
  /\ PageInit
  /\ LhPageInit

\* the two pages when every store call returns
SpecBothFair ==
  /\ InitFair
  /\ [][NextBoth]_vars
  /\ WF_vars(RetRunStep)
  /\ WF_vars(LhRunStep)

\* ---------------------------------------------------------------------
\* The legal hold page open in two browsers
\* ---------------------------------------------------------------------
\* what the second page leaves alone when it does not write
SecondFrame == <<Tables, empLhold, HoldPage, RetPage, runHist>>

\* the update calls of runBatch that are still to come
lhWritesPending(at) == at \in {"actWrite", "remWrite"}

\* runBatch of the second page up to the first await; the button is
\* disabled by the busy of its own page
Lh2Start_exclusive ==
  /\ ~ second.busy /\ ~ lhBusy
  /\ second' = [NoSecond EXCEPT !.busy = TRUE,
                                !.rows = [LhBlankRows EXCEPT
                                            !.start = "hh:mm:ss.mmm"],
                                !.pc = "empCounts"]
  /\ UNCHANGED SecondFrame
Lh2Start ==
  /\ ~ second.busy
  /\ second' = [NoSecond EXCEPT !.busy = TRUE,
                                !.rows = [LhBlankRows EXCEPT
                                            !.start = "hh:mm:ss.mmm"],
                                !.pc = "empCounts"]
  /\ UNCHANGED SecondFrame

Lh2EmpCounts ==
  /\ second.pc = "empCounts"
  /\ second' = [second EXCEPT
       !.rows = [@ EXCEPT
          !.empNo    = ToString(countByHold(empLhold, "false")),
          !.empYes   = ToString(countByHold(empLhold, "true")),
          !.empTotal = ToString(Cardinality(DOMAIN empLhold))],
       !.pc = "selAct"]
  /\ UNCHANGED SecondFrame

Lh2SelectToActivate ==
  /\ second.pc = "selAct"
  /\ second' = [second EXCEPT
       !.lh = [@ EXCEPT !.toActivate = selectByHold(documents, "false")],
       !.pc = "selEmpYes"]
  /\ UNCHANGED SecondFrame

Lh2SelectEmpYes ==
  /\ second.pc = "selEmpYes"
  /\ LET set == employeesByHold(empLhold, "true")
     IN  second' = [second EXCEPT
           !.lh = [@ EXCEPT
              !.empYesSet = set,
              !.activateDocIds = idsOfMatching(second.lh.toActivate, set)],
           !.pc = "selRem"]
  /\ UNCHANGED SecondFrame

Lh2SelectToRemove ==
  /\ second.pc = "selRem"
  /\ second' = [second EXCEPT
       !.lh = [@ EXCEPT !.toRemove = selectByHold(documents, "true")],
       !.pc = "selEmpNo"]
  /\ UNCHANGED SecondFrame

Lh2SelectEmpNo ==
  /\ second.pc = "selEmpNo"
  /\ LET set  == employeesByHold(empLhold, "false")
         l    == [second.lh EXCEPT
                    !.empNoSet = set,
                    !.removeDocIds = idsOfMatching(second.lh.toRemove, set)]
         at   == lhAfterSelects(l)
     IN  second' = [second EXCEPT
           !.lh = l, !.pc = at,
           !.rows = lhChangeRows(second.rows, l, at)]
  /\ UNCHANGED SecondFrame

\* an update call of the second page: a write from elsewhere for the run
\* of the first page and for the retention page
Lh2ActivateBatch ==
  /\ second.pc = "actWrite"
  /\ LET ids  == lhBatches(second.lh.activateDocIds)[second.lh.bi]
         last == second.lh.bi = Len(lhBatches(second.lh.activateDocIds))
         l    == [second.lh EXCEPT
                    !.activated = addCount(second.lh.activated, ids),
                    !.bi = IF last THEN 1 ELSE second.lh.bi + 1]
         at   == IF last THEN lhAfterActivate(second.lh) ELSE "actWrite"
     IN  /\ documents' = updateHold(documents, ids, "true")
         /\ second' = [second EXCEPT
              !.lh = l, !.pc = at,
              !.rows = lhChangeRows(second.rows, l, at),
              !.overlap = @ \/ lhWritesPending(lhPc)]
  /\ lhHist' = [lhHist EXCEPT !.tainted = TRUE]
  /\ tainted' = TRUE
  /\ quiet' = 0
  /\ UNCHANGED <<employees, empLhold, lhBusy, lhStatus, lhRows, lhPc, lh,
                 RetSide, runHist>>

Lh2RemoveBatch ==
  /\ second.pc = "remWrite"
  /\ LET ids  == lhBatches(second.lh.removeDocIds)[second.lh.bi]
         last == second.lh.bi = Len(lhBatches(second.lh.removeDocIds))
         l    == [second.lh EXCEPT
                    !.removed = addCount(second.lh.removed, ids),
                    !.bi = IF last THEN 1 ELSE second.lh.bi + 1]
         at   == IF last THEN "docCounts" ELSE "remWrite"
     IN  /\ documents' = updateHold(documents, ids, removeValue)
         /\ second' = [second EXCEPT
              !.lh = l, !.pc = at,
              !.rows = lhChangeRows(second.rows, l, at),
              !.overlap = @ \/ lhWritesPending(lhPc)]
  /\ lhHist' = [lhHist EXCEPT !.tainted = TRUE]
  /\ tainted' = TRUE
  /\ quiet' = 0
  /\ UNCHANGED <<employees, empLhold, lhBusy, lhStatus, lhRows, lhPc, lh,
                 RetSide, runHist>>

Lh2DocCounts ==
  /\ second.pc = "docCounts"
  /\ second' = [second EXCEPT
       !.rows = [@ EXCEPT
          !.docNo    = ToString(countByHold(holdColumn(documents), "false")),
          !.docYes   = ToString(countByHold(holdColumn(documents), "true")),
          !.docTotal = ToString(Cardinality(DOMAIN documents)),
          !.end      = "hh:mm:ss.mmm",
          !.duration = "n ms"],
       !.status = "Successful: Legal Hold batch finished.",
       !.busy = FALSE,
       !.pc = "idle",
       !.seen = Len(lhHist.calls)]
  /\ UNCHANGED SecondFrame

\* a call of the second page returns an error: catch + finally
Lh2Error ==
  /\ second.pc # "idle"
  /\ second' = [second EXCEPT !.status = "Error: store", !.busy = FALSE,
                              !.pc = lhAfterError(second.pc)]
  /\ UNCHANGED SecondFrame

\* the Employee Directory lifts a hold
EmployeeHoldLift ==
  /\ EmployeeHoldChange
  /\ \A e \in DOMAIN empLhold : empLhold'[e] = "true" => empLhold[e] = "true"

\* an employee on hold with a document to put on hold and a document on
\* hold
InitTwo ==
  /\ documents = [d \in {"D1", "D2"} |->
                    IF d = "D1" THEN SettledRow("E1", "false")
                                ELSE SettledRow("E1", "true")]
  /\ employees = [e \in {"E1"} |-> EmpRow("Active", NULL)]
  /\ empLhold = [e \in {"E1"} |-> "true"]
  /\ tz = 0
  /\ clock = 1
  /\ PageInit
  /\ LhPageInit

NextTwo ==
  \/ LhStart
  \/ LhEmpCounts
  \/ LhSelectToActivate
  \/ LhSelectEmpYes
  \/ LhSelectToRemove
  \/ LhSelectEmpNo
  \/ LhActivateBatch
  \/ LhRemoveBatch
  \/ LhDocCounts
  \/ LhReadError
  \/ LhWriteError
  \/ Lh2Start
  \/ Lh2EmpCounts
  \/ Lh2SelectToActivate
  \/ Lh2SelectEmpYes
  \/ Lh2SelectToRemove
  \/ Lh2SelectEmpNo
  \/ Lh2ActivateBatch
  \/ Lh2RemoveBatch
  \/ Lh2DocCounts
  \/ Lh2Error
  \/ EmployeeHoldLift

SpecTwo == InitTwo /\ [][NextTwo]_vars

\* ---------------------------------------------------------------------
\* Vocabulary of the properties
\* ---------------------------------------------------------------------
\* the last run of the page ended on the success path
Succeeded == pc = "idle" /\ status = "Successful: Retention batch finished."

\* the run has classified its documents
Classified == pc \in {"write", "finish"} \/ Succeeded

ReadIdx == 1..Len(allDocs)
StoredRow(k) == documents[allDocs[k].d_id]
TrigOf(d) == toLowerCase(norm(d.d_r_trigger))
Queued(k) == \E j \in 1..Len(updates) : updates[j].d_id = allDocs[k].d_id
WasWritten(k) == \E j \in 1..Len(written) : written[j] = allDocs[k].d_id

\* ---------------------------------------------------------------------
\* C1: after a successful run every document read with e_lhold = true is
\* stored with status "legal hold" and no deletion date, whatever its
\* trigger, months, d_date and employee.
\* ---------------------------------------------------------------------
C1_HoldOverrides ==
  Succeeded =>
    \A k \in ReadIdx :
      allDocs[k].e_lhold = "true" =>
        /\ StoredRow(k).d_r_status = "legal hold"
        /\ StoredRow(k).d_r_deletion = NULL

\* a held document of a long-terminated employee, trigger blank, was
\* rewritten to "legal hold"
C1_Witness ==
  /\ Succeeded
  /\ \E k \in ReadIdx :
       /\ allDocs[k].e_lhold = "true"
       /\ norm(allDocs[k].d_r_trigger) = ""
       /\ WasWritten(k)
       /\ StoredRow(k).d_r_status = "legal hold"
  /\ \E e \in DOMAIN empMap : isTerminated(lookupEmp([e_id |-> e], empMap))

\* ---------------------------------------------------------------------
\* C2: after a successful run no document that was read is stored with
\* status "not set"; the stored status is one of the four resolved values.
\* ---------------------------------------------------------------------
C2_NoNotSet ==
  Succeeded =>
    \A k \in ReadIdx :
      StoredRow(k).d_r_status \in {"not started", "started", "legal hold", "expired"}

\* one document read as "not set" and one read as null were both resolved
C2_Witness ==
  /\ Succeeded
  /\ \E k \in ReadIdx : allDocs[k].d_r_status = "not set" /\ WasWritten(k)
  /\ \E k \in ReadIdx : allDocs[k].d_r_status = NULL /\ WasWritten(k)

C4_MinimalWrites ==
  Classified =>
    /\ \A k \in ReadIdx :
         LET new == resolveDoc(allDocs[k], empMap, today, tz)
         IN  /\ Queued(k) <=>
                  \/ norm(allDocs[k].d_r_status) # new.status
                  \/ norm(allDocs[k].d_r_deletion) # orBlank(new.deletion)
             /\ WasWritten(k) => Queued(k)
    /\ \A i, j \in 1..Len(updates) :
         updates[i].d_id = updates[j].d_id => i = j
    /\ \A i, j \in 1..Len(written) : written[i] = written[j] => i = j

\* one document whose status stays "started" but whose deletion date moved
\* was written, and the other document of the run was left alone
C4_Witness ==
  /\ Succeeded
  /\ \E k \in ReadIdx :
       /\ allDocs[k].d_r_status = "started"
       /\ StoredRow(k).d_r_status = "started"
       /\ StoredRow(k).d_r_deletion # allDocs[k].d_r_deletion
       /\ WasWritten(k)
  /\ \E k \in ReadIdx : ~ Queued(k)

\* ---------------------------------------------------------------------
\* Calendar vocabulary of the properties
\* ---------------------------------------------------------------------
\* the string is a date or a timestamp
Parseable(s) ==
  \E t \in StampDays :
    s = isoDay(t) \/ \E h \in StampHours : s = isoStamp(t, h)

\* the calendar day written in a date or timestamp string
WrittenDay(s) ==
  LET t == CHOOSE u \in StampDays :
             s = isoDay(u) \/ \E h \in StampHours : s = isoStamp(u, h)
  IN  [valid |-> TRUE, y |-> t[1], m |-> t[2], d |-> t[3]]

\* n calendar months after a day: same day of the month, or the last day
\* of the target month when that month is shorter
AddCalendarMonths(base, n) ==
  LET mi == (base.m - 1) + n
      yy == base.y + (mi \div 12)
      mm == (mi % 12) + 1
  IN  [valid |-> TRUE, y |-> yy, m |-> mm, d |-> Min(base.d, DaysIn(yy, mm))]

\* d_r_month is a non-negative number
ValidMonths(v) == v.kind = "number" /\ v.n >= 0

\* the pair the specification prescribes for a base day and a month count
Prescribed(base, n, tdy) ==
  LET del == AddCalendarMonths(base, n)
  IN  [status   |-> IF DayLess(del, tdy) THEN "expired" ELSE "started",
       deletion |-> isoDay(<<del.y, del.m, del.d>>)]

StoredPair(k) ==
  [status |-> StoredRow(k).d_r_status, deletion |-> StoredRow(k).d_r_deletion]

\* ---------------------------------------------------------------------
\* C5: a document not on hold, trigger "termination", valid months,
\* employee found and terminated with a parseable e_tdate, is resolved to
\* deletion = e_tdate + d_r_month calendar months, "expired" if that day is
\* before today and "started" otherwise.
\* ---------------------------------------------------------------------
C5_TerminationDeletion ==
  Succeeded =>
    \A k \in ReadIdx :
      LET d   == allDocs[k]
          emp == lookupEmp(d, empMap)
      IN  ( /\ d.e_lhold # "true"
            /\ TrigOf(d) = "termination"
            /\ ValidMonths(d.d_r_month)
            /\ emp.found
            /\ toLowerCase(norm(emp.e_status)) = "terminated"
            /\ Parseable(emp.e_tdate) )
          => StoredPair(k) = Prescribed(WrittenDay(emp.e_tdate), d.d_r_month.n, today)

\* ---------------------------------------------------------------------
\* C6: a document not on hold, trigger "cassation date", valid months and
\* a parseable d_date, is resolved to deletion = d_date + d_r_month
\* calendar months whatever the employee, "expired" if that day is before
\* today and "started" otherwise.
\* ---------------------------------------------------------------------
C6_CassationDeletion ==
  Succeeded =>
    \A k \in ReadIdx :
      LET d == allDocs[k]
      IN  ( /\ d.e_lhold # "true"
            /\ TrigOf(d) = "cassation date"
            /\ ValidMonths(d.d_r_month)
            /\ Parseable(d.d_date) )
          => StoredPair(k) = Prescribed(WrittenDay(d.d_date), d.d_r_month.n, today)

\* ---------------------------------------------------------------------
\* C7: a document not on hold is resolved to "not started" without a
\* deletion date when the trigger is "termination" and the employee is
\* absent, unmatched, not terminated, or terminated without a parseable
\* e_tdate; when the trigger is "cassation date" and d_date is missing or
\* unparseable; and for any other non-empty trigger.
\* ---------------------------------------------------------------------
C7_NotStartedCases ==
  Succeeded =>
    \A k \in ReadIdx :
      LET d   == allDocs[k]
          emp == lookupEmp(d, empMap)
      IN  ( /\ d.e_lhold # "true"
            /\ \/ /\ TrigOf(d) = "termination"
                  /\ \/ ~ truthy(d.e_id)
                     \/ d.e_id \notin DOMAIN empMap
                     \/ toLowerCase(norm(emp.e_status)) # "terminated"
                     \/ ~ Parseable(emp.e_tdate)
               \/ /\ TrigOf(d) = "cassation date"
                  /\ ~ Parseable(d.d_date)
               \/ TrigOf(d) \notin {"", "termination", "cassation date"} )
          => StoredPair(k) = NotStarted

\* a termination document of an employee who is not terminated but has a
\* termination date on file was classified
C7_Witness ==
  /\ Succeeded
  /\ \E k \in ReadIdx :
       /\ allDocs[k].e_lhold # "true"
       /\ TrigOf(allDocs[k]) = "termination"
       /\ ValidMonths(allDocs[k].d_r_month)
       /\ lookupEmp(allDocs[k], empMap).found
       /\ ~ isTerminated(lookupEmp(allDocs[k], empMap))
       /\ Parseable(lookupEmp(allDocs[k], empMap).e_tdate)
       /\ StoredPair(k) = NotStarted

\* ---------------------------------------------------------------------
\* C8: a document not on hold whose trimmed trigger is empty or whose
\* d_r_month is not a finite, non-negative number is resolved to
\* "not started" without a deletion date.
\* ---------------------------------------------------------------------
C8_InvalidMonthsNotStarted ==
  Succeeded =>
    \A k \in ReadIdx :
      LET d == allDocs[k]
      IN  ( /\ d.e_lhold # "true"
            /\ \/ norm(d.d_r_trigger) = ""
               \/ ~ ValidMonths(d.d_r_month) )
          => StoredPair(k) = NotStarted

\* ---------------------------------------------------------------------
\* C9: addMonths with n >= 0 lands in calendar month (base month + n), on
\* the base day of the month or, when the target month is shorter, on its
\* last day: the deletion date stored by a run is the ISO form of that day.
\* ---------------------------------------------------------------------
C9_AddMonthsClamps ==
  Succeeded =>
    \A k \in ReadIdx :
      LET d    == allDocs[k]
          emp  == lookupEmp(d, empMap)
          n    == Number(d.d_r_month)
          src  == IF TrigOf(d) = "termination" THEN emp.e_tdate ELSE d.d_date
          base == newDate(src, tz)
      IN  ( /\ d.e_lhold # "true"
            /\ n.finite /\ n.n >= 0
            /\ \/ TrigOf(d) = "termination" /\ isTerminated(emp)
               \/ TrigOf(d) = "cassation date"
            /\ truthy(src) /\ base.valid )
          => LET r == AddCalendarMonths(base, n.n)
             IN  StoredRow(k).d_r_deletion = isoDay(<<r.y, r.m, r.d>>)

\* 2024-01-31 plus one month was stored as 2024-02-29
C9_Witness ==
  /\ Succeeded
  /\ \E k \in ReadIdx :
       /\ allDocs[k].d_date = isoStamp(<<2024, 1, 31>>, 12)
       /\ allDocs[k].d_r_month = Num(1)
       /\ WasWritten(k)
       /\ StoredRow(k).d_r_deletion = "2024-02-29"

\* ---------------------------------------------------------------------
\* C10: a document stored as "started" with deletion D by a successful
\* run, nothing else having changed, is rewritten to "expired" with the
\* same D by a successful run whose today is after D, and is left
\* "started", unwritten, by a run whose today is on or before D.
\* ---------------------------------------------------------------------
DayWindow ==
  {[valid |-> TRUE, y |-> yy, m |-> mm, d |-> dd] :
     yy \in 2023..2025, mm \in 1..12, dd \in 1..31}

\* the day an ISO date string names
DayOfIso(s) == CHOOSE x \in DayWindow : x.d <= DaysIn(x.y, x.m) /\ toISODate(x) = s

LhSucceeded ==
  lhPc = "idle" /\ lhStatus = "Successful: Legal Hold batch finished."

\* the last run of the legal hold page ended in the catch block
LhErrorEnded == lhPc = "idle" /\ lhStatus = "Error: store"

\* nothing but the run has changed the tables since the run began
LhUndisturbed == ~ lhHist.tainted

\* the document's e_id names an employee of the directory
Matched(d) ==
  documents[d].e_id # NULL /\ documents[d].e_id \in DOMAIN empLhold

\* the documents of the start of the run that disagree with their employee
ActivateSet ==
  {d \in DOMAIN lhHist.docs0 :
     /\ lhHist.docs0[d] = "false"
     /\ Matched(d) /\ empLhold[documents[d].e_id] = "true"}

RemoveSet ==
  {d \in DOMAIN lhHist.docs0 :
     /\ lhHist.docs0[d] = "true"
     /\ Matched(d) /\ empLhold[documents[d].e_id] = "false"}

SeqIds(ids) == {ids[k] : k \in 1..Len(ids)}

\* the d_ids of the successful update calls that wrote v
WrittenIds(v) ==
  UNION {SeqIds(lhHist.calls[c].ids) :
           c \in {k \in 1..Len(lhHist.calls) :
                    lhHist.calls[k].ok /\ lhHist.calls[k].value = v}}

\* ---------------------------------------------------------------------
\* C11: a successful propagator run sets e_lhold = true on exactly the
\* documents that were not held while their employee was, sets
\* e_lhold = false on exactly the documents that were held while their
\* employee was not, and writes no other document.
\* ---------------------------------------------------------------------
C11_ExactHoldWrites ==
  LhSucceeded =>
    /\ WrittenIds("true") = SeqIds(lh.activateDocIds)
    /\ WrittenIds("false") = SeqIds(lh.removeDocIds)
    /\ LhUndisturbed =>
         /\ WrittenIds("true") = ActivateSet
         /\ WrittenIds("false") = RemoveSet
         /\ \A d \in DOMAIN lhHist.docs0 :
              documents[d].e_lhold =
                IF d \in ActivateSet THEN "true"
                ELSE IF d \in RemoveSet THEN "false"
                ELSE lhHist.docs0[d]

C11_Witness ==
  /\ LhSucceeded /\ LhUndisturbed
  /\ ActivateSet # {} /\ RemoveSet # {}
  /\ WrittenIds("true") = ActivateSet /\ WrittenIds("false") = RemoveSet

\* ---------------------------------------------------------------------
\* C12: after a successful propagator run that nothing disturbed, every
\* document whose e_id names an employee carries that employee's e_lhold.
\* ---------------------------------------------------------------------
C12_HoldsAgree ==
  (LhSucceeded /\ LhUndisturbed) =>
    \A d \in DOMAIN documents :
      Matched(d) => documents[d].e_lhold = empLhold[documents[d].e_id]

C12_Witness ==
  /\ LhSucceeded /\ LhUndisturbed
  /\ \E d \in DOMAIN lhHist.docs0 :
       /\ Matched(d)
       /\ lhHist.docs0[d] = "true"
       /\ documents[d].e_lhold = "false"
       /\ empLhold[documents[d].e_id] = "false"

\* ---------------------------------------------------------------------
\* C13: a document without e_id, or whose e_id names no employee, is in
\* neither activateDocIds nor removeDocIds, no update call names it, and
\* no step changes its e_lhold, whichever value it has.
\* ---------------------------------------------------------------------
C13_UnmatchedUntouched ==
  /\ [](\A d \in DOMAIN documents :
          ~ Matched(d) =>
            /\ d \notin SeqIds(lh.activateDocIds)
            /\ d \notin SeqIds(lh.removeDocIds)
            /\ \A k \in 1..Len(lhHist.calls) : d \notin SeqIds(lhHist.calls[k].ids))
  /\ [][\A d \in DOMAIN documents :
          ~ Matched(d) => documents'[d].e_lhold = documents[d].e_lhold]_vars

C13_Witness ==
  /\ LhSucceeded
  /\ \E d \in DOMAIN lhHist.docs0, k \in 1..Len(lhHist.calls) :
       /\ ~ Matched(d)
       /\ lhHist.calls[k].ok
       /\ lhHist.calls[k].value # documents[d].e_lhold
       /\ documents[d].e_lhold = lhHist.docs0[d]

\* ---------------------------------------------------------------------
\* C14: every update call of the propagator carries between 1 and 500
\* document ids, and after a successful run each id of activateDocIds is
\* in exactly one activating call, each id of removeDocIds in exactly one
\* removing call, and the calls carry no other id.
\* ---------------------------------------------------------------------
CallsOf(v) == {k \in 1..Len(lhHist.calls) : lhHist.calls[k].value = v}

\* the ids of the calls, one call after the other
RECURSIVE Flatten(_)
Flatten(calls) ==
  IF calls = <<>> THEN <<>> ELSE Head(calls).ids \o Flatten(Tail(calls))

\* ids holds no id twice, and the calls that wrote v carry ids piece by
\* piece: every id in one call, at one place, and nothing else
Partitions(v, ids) ==
  /\ Cardinality(SeqIds(ids)) = Len(ids)
  /\ Flatten(SelectSeq(lhHist.calls, LAMBDA c : c.value = v)) = ids

C14_BatchesPartition ==
  /\ \A k \in 1..Len(lhHist.calls) :
       Len(lhHist.calls[k].ids) >= 1 /\ Len(lhHist.calls[k].ids) <= 500
  /\ LhSucceeded =>
       /\ Partitions("true", lh.activateDocIds)
       /\ Partitions("false", lh.removeDocIds)

C14_Witness ==
  /\ LhSucceeded
  /\ Len(lh.activateDocIds) > 500
  /\ Cardinality(CallsOf("true")) = 2
  /\ \E k \in CallsOf("true") : Len(lhHist.calls[k].ids) = 500

\* ---------------------------------------------------------------------
\* C15: after a successful propagator run the report shows the size of
\* activateDocIds as activated and the size of removeDocIds as removed;
\* when nothing else changed the store, the document counts of the report
\* are those of the store, and the documents on hold are those on hold
\* before the run, plus the activated, minus the removed.
\* ---------------------------------------------------------------------
C15_ReportedCounts ==
  LhSucceeded =>
    /\ lhRows.activated = ToString(Len(lh.activateDocIds))
    /\ lhRows.removed = ToString(Len(lh.removeDocIds))
    /\ LhUndisturbed =>
         /\ lhRows.activated = ToString(Cardinality(ActivateSet))
         /\ lhRows.removed = ToString(Cardinality(RemoveSet))
         /\ lhRows.docYes = ToString(countByHold(holdColumn(documents), "true"))
         /\ lhRows.docNo = ToString(countByHold(holdColumn(documents), "false"))
         /\ lhRows.docTotal = ToString(Cardinality(DOMAIN documents))
         /\ lhRows.docYes =
              ToString(countByHold(lhHist.docs0, "true")
                         + Len(lh.activateDocIds) - Len(lh.removeDocIds))

C15_Witness ==
  /\ LhSucceeded /\ LhUndisturbed
  /\ Len(lh.activateDocIds) = 2
  /\ lhRows.activated = "2"
  /\ lhRows.docYes = "2"

\* ---------------------------------------------------------------------
\* C16: the first store call of a propagator run that fails ends the run
\* in the error state.  The failing step changes no document and leaves
\* the run idle; the update calls of the run are then the first batches
\* of the two loops in their order, all but the failed one applied, the
\* failed one issued once and last, and every document carries what the
\* applied calls wrote.
\* ---------------------------------------------------------------------
\* the update calls a run issues when none fails
PlannedCalls ==
  LET a == lhBatches(lh.activateDocIds)
      r == lhBatches(lh.removeDocIds)
  IN  [k \in 1..(Len(a) + Len(r)) |->
         IF k <= Len(a) THEN [ids |-> a[k], value |-> "true"]
                        ELSE [ids |-> r[k - Len(a)], value |-> "false"]]

C16_FirstErrorEndsRun ==
  /\ [](LhErrorEnded =>
          LET planned == PlannedCalls
              wroteTrue == WrittenIds("true")
              wroteFalse == WrittenIds("false")
          IN  /\ Len(lhHist.calls) <= Len(planned)
              /\ \A k \in 1..Len(lhHist.calls) :
                   /\ lhHist.calls[k].ids = planned[k].ids
                   /\ lhHist.calls[k].value = planned[k].value
                   /\ k < Len(lhHist.calls) => lhHist.calls[k].ok
              /\ \A d \in DOMAIN lhHist.docs0 :
                   documents[d].e_lhold =
                     IF d \in wroteTrue THEN "true"
                     ELSE IF d \in wroteFalse THEN "false"
                     ELSE lhHist.docs0[d])
  /\ [][(lhPc # "idle" /\ lhStatus' = "Error: store") =>
          /\ lhPc' = "idle"
          /\ ~ lhBusy'
          /\ documents' = documents]_vars

C16_Witness ==
  /\ LhErrorEnded
  /\ Len(lhHist.calls) = 2
  /\ lhHist.calls[1].ok /\ ~ lhHist.calls[2].ok
  /\ Len(PlannedCalls) = 2
  /\ \E d \in SeqIds(lhHist.calls[1].ids) :
       documents[d].e_lhold = "true" /\ lhHist.docs0[d] = "false"

\* ---------------------------------------------------------------------
\* Vocabulary of the error paths of the retention page
\* ---------------------------------------------------------------------
\* the last run of the retention page ended in the catch block
ErrorEnded == pc = "idle" /\ status = "Error: store"

\* the run has read the documents and every chunk of employees
ReadsDone == pc \notin {"readDocs", "readEmps"} /\ ei > Len(empChunks(allDocs))

\* d_r_status and d_r_deletion of the stored document d_id
StoredPairOf(id) ==
  <<documents[id].d_r_status, documents[id].d_r_deletion>>

\* d_r_status and d_r_deletion of the document d_id as the run read it
ReadPairOf(id) ==
  LET k == CHOOSE i \in ReadIdx : allDocs[i].d_id = id
  IN  <<allDocs[k].d_r_status, allDocs[k].d_r_deletion>>

\* ---------------------------------------------------------------------
\* C17: in a resolver run a failed read of the documents or of a chunk of
\* employees ends the run in the error state with no update issued: a
\* run has written nothing while it reads, and whatever it has written
\* it wrote after all its reads had succeeded.
\* ---------------------------------------------------------------------
C17_ReadsBeforeWrites ==
  /\ [](pc \in {"readDocs", "readEmps"} => written = <<>>)
  /\ [](written # <<>> => ReadsDone)
  /\ [][(pc \in {"readDocs", "readEmps"} /\ status' = "Error: store") =>
          /\ pc' = "idle"
          /\ ~ busy'
          /\ written' = <<>>
          /\ documents' = documents]_vars

C17_Witness ==
  /\ ErrorEnded
  /\ Len(allDocs) > 0
  /\ ei <= Len(empChunks(allDocs))
  /\ written = <<>>

\* ---------------------------------------------------------------------
\* C18: in a resolver run the first update that fails ends the run in the
\* error state.  The failing step changes no document and leaves the run
\* idle; the updates applied are then the first ones of the queue, fewer
\* than the queue holds, each still in the store, and the documents of
\* the failed update and of the later ones are as the run read them.
\* ---------------------------------------------------------------------
C18_WriteErrorStops ==
  /\ []((ErrorEnded /\ Len(updates) > 0) =>
          /\ Len(written) < Len(updates)
          /\ \A j \in 1..Len(updates) :
               IF j <= Len(written)
                 THEN /\ written[j] = updates[j].d_id
                      /\ StoredPairOf(updates[j].d_id) =
                           <<updates[j].d_r_status, updates[j].d_r_deletion>>
                 ELSE StoredPairOf(updates[j].d_id) = ReadPairOf(updates[j].d_id))
  /\ [][(pc = "write" /\ status' = "Error: store") =>
          /\ pc' = "idle"
          /\ ~ busy'
          /\ written' = written
          /\ documents' = documents]_vars

C18_Witness ==
  /\ ErrorEnded
  /\ Len(updates) = 2
  /\ Len(written) = 1
  /\ StoredPairOf(updates[1].d_id) # ReadPairOf(updates[1].d_id)
  /\ StoredPairOf(updates[2].d_id) = ReadPairOf(updates[2].d_id)

\* ---------------------------------------------------------------------
\* C19: the report of a run that ended in error shows no count of that
\* run: every count row is empty and only the error message is shown.
\* ---------------------------------------------------------------------
C19_NoCountsOnError ==
  ErrorEnded =>
    /\ rows.total = "" /\ rows.updated = "" /\ rows.notset = ""
    /\ rows.notstarted = "" /\ rows.started = "" /\ rows.legalhold = ""
    /\ rows.expired = ""

\* ---------------------------------------------------------------------
\* C20: in every state of the store a document with e_lhold = true has
\* d_r_status = "legal hold" and d_r_deletion = null.
\* ---------------------------------------------------------------------
C20_HeldIsLegalHold ==
  \A d \in DOMAIN documents :
    documents[d].e_lhold = "true" =>
      /\ documents[d].d_r_status = "legal hold"
      /\ documents[d].d_r_deletion = NULL

\* ---------------------------------------------------------------------
\* C22: after a successful resolver run the report shows 0 for "not set",
\* the counts of "not started", "started", "legal hold" and "expired" add
\* up to the total number of documents, which is the number of documents
\* read, and the number of updated documents is the number of updates
\* the run applied to the store.
\* ---------------------------------------------------------------------
C22_ReportAddsUp ==
  Succeeded =>
    /\ rows.notset = "0"
    /\ rows.total = ToString(Len(allDocs))
    /\ \E a, b, c, h \in 0..Len(allDocs) :
         /\ rows.notstarted = ToString(a)
         /\ rows.started = ToString(b)
         /\ rows.expired = ToString(c)
         /\ rows.legalhold = ToString(h)
         /\ rows.total = ToString(a + b + c + h)
    /\ rows.updated = ToString(Len(written))

C22_Witness ==
  /\ Succeeded
  /\ rows.total = "2"
  /\ rows.updated = "2"
  /\ rows.legalhold = "1"
  /\ \E k \in ReadIdx : allDocs[k].d_r_status = "not set"

\* ---------------------------------------------------------------------
\* C28: the pair the resolver computes for a document has a deletion date
\* exactly when its status is "started" or "expired", and none exactly
\* when its status is "not started" or "legal hold"; after a successful
\* run every stored pair is coupled in the same way.
\* ---------------------------------------------------------------------
Coupled(st, del) ==
  /\ del # NULL <=> st \in {"started", "expired"}
  /\ del = NULL <=> st \in {"not started", "legal hold"}

C28_StatusDeletionCoupled ==
  /\ Classified =>
       \A k \in ReadIdx :
         LET p == resolveDoc(allDocs[k], empMap, today, tz)
         IN  Coupled(p.status, p.deletion)
  /\ Succeeded =>
       \A d \in DOMAIN documents :
         Coupled(documents[d].d_r_status, documents[d].d_r_deletion)

C28_Witness ==
  /\ Succeeded
  /\ \E d \in DOMAIN documents :
       /\ documents[d].d_r_status = "expired"
       /\ documents[d].d_r_deletion # NULL
       /\ WasWritten(CHOOSE k \in ReadIdx : allDocs[k].d_id = d)

\* ---------------------------------------------------------------------
\* C30: a resolver run takes today once, after its reads, and classifies
\* all its documents against it: documents with the same computed
\* deletion date get the same status, and the updates of the run are
\* determined by the documents, the employees and today alone, so they
\* are the ones any browser computes from the same three.
\* ---------------------------------------------------------------------
C30_ResultOfInputsOnly ==
  Classified =>
    /\ \A j, k \in ReadIdx :
         LET p == resolveDoc(allDocs[j], empMap, today, tz)
             q == resolveDoc(allDocs[k], empMap, today, tz)
         IN  (p.deletion # NULL /\ p.deletion = q.deletion) => p.status = q.status
    /\ \A z \in Zones : updatesOf(allDocs, empMap, today, z) = updates

\* ---------------------------------------------------------------------
\* C26: a propagator run computes its two lists from one snapshot, also
\* when the tables change while it reads: no employee is in both the held
\* and the not-held set of the run, and no document id is in both
\* activateDocIds and removeDocIds.
\* ---------------------------------------------------------------------
C26_OneSnapshot ==
  /\ lh.empYesSet \cap lh.empNoSet = {}
  /\ SeqIds(lh.activateDocIds) \cap SeqIds(lh.removeDocIds) = {}

\* ---------------------------------------------------------------------
\* Vocabulary of the properties of the two pages together
\* ---------------------------------------------------------------------
\* the step is one of the propagator run, of the resolver run
HoldStep == <<lhPc, lh>>' # <<lhPc, lh>>
RetStep  == <<pc, wi>>' # <<pc, wi>>

\* the row differs at most in the named columns
SameButHold(old, new) == new = [old EXCEPT !.e_lhold = new.e_lhold]
SameButStatus(old, new) ==
  new = [old EXCEPT !.d_r_status = new.d_r_status,
                    !.d_r_deletion = new.d_r_deletion]

\* ---------------------------------------------------------------------
\* C21: no step of either batch changes the employees; a step of the
\* propagator changes at most the e_lhold column of documents, a step of
\* the resolver at most d_r_status and d_r_deletion, and neither adds or
\* removes a document.
\* ---------------------------------------------------------------------
C21_BatchFrames ==
  [][/\ (HoldStep \/ RetStep) =>
          /\ employees' = employees
          /\ empLhold' = empLhold
          /\ DOMAIN documents' = DOMAIN documents
     /\ HoldStep =>
          \A d \in DOMAIN documents : SameButHold(documents[d], documents'[d])
     /\ RetStep =>
          \A d \in DOMAIN documents : SameButStatus(documents[d], documents'[d])]_vars

C21_Witness ==
  /\ Succeeded /\ LhSucceeded
  /\ \E d \in DOMAIN lhHist.docs0 :
       /\ documents[d].e_lhold # lhHist.docs0[d]
       /\ d \in SeqIds(written)
       /\ documents[d].d_r_status = "legal hold"

\* ---------------------------------------------------------------------
\* C24: when runs of a batch failed after some of their writes and the
\* batch is then run again to success, with the tables changed by nothing
\* else since the first of them began and with the same today, the
\* documents are those one successful run would have left.
\* ---------------------------------------------------------------------
\* the documents after one whole resolver run on tbl
ResolvedTable(tbl, emps, tdy, zone) ==
  [d \in DOMAIN tbl |->
     LET r == resolveDoc(tbl[d], emps, tdy, zone)
     IN  IF changed(tbl[d], r)
           THEN [tbl[d] EXCEPT !.d_r_status = r.status,
                               !.d_r_deletion = r.deletion]
           ELSE tbl[d]]

\* the hold column after one whole propagator run on col
PropagatedColumn(col) ==
  [d \in DOMAIN col |->
     IF ~ Matched(d) THEN col[d]
     ELSE IF col[d] = "false" /\ empLhold[documents[d].e_id] = "true" THEN "true"
     ELSE IF col[d] = "true" /\ empLhold[documents[d].e_id] = "false" THEN "false"
     ELSE col[d]]

RetRerunDone ==
  /\ Succeeded /\ ~ tainted
  /\ runHist.chained /\ runHist.partial /\ runHist.day = today

HoldRerunDone ==
  /\ LhSucceeded /\ LhUndisturbed
  /\ runHist.lhChained /\ runHist.lhPartial

C24_RerunConverges ==
  /\ RetRerunDone =>
       documents = ResolvedTable(runHist.base, employees, today, tz)
  /\ HoldRerunDone =>
       holdColumn(documents) = PropagatedColumn(runHist.lhBase)

C24_Witness ==
  /\ RetRerunDone
  /\ documents # runHist.base
  /\ HoldRerunDone
  /\ holdColumn(documents) # runHist.lhBase
  /\ Len(lhHist.calls) = 1

\* ---------------------------------------------------------------------
\* C25: after a successful propagator run followed by a successful
\* resolver run, with nothing else changing the tables in between, every
\* document of an employee on hold is stored as ("legal hold", null) and
\* no document of an employee not on hold has the status "legal hold".
\* ---------------------------------------------------------------------
C25_HoldThenRetention ==
  (Succeeded /\ ~ tainted /\ runHist.afterHold) =>
    \A d \in DOMAIN documents :
      Matched(d) =>
        IF empLhold[documents[d].e_id] = "true"
          THEN /\ documents[d].d_r_status = "legal hold"
               /\ documents[d].d_r_deletion = NULL
          ELSE documents[d].d_r_status # "legal hold"

C25_Witness ==
  /\ Succeeded /\ ~ tainted /\ runHist.afterHold
  /\ \E d \in DOMAIN lhHist.docs0 :
       /\ lhHist.docs0[d] = "false"
       /\ empLhold[documents[d].e_id] = "true"
       /\ d \in SeqIds(written)
       /\ documents[d].d_r_status = "legal hold"
  /\ \E d \in DOMAIN lhHist.docs0 :
       /\ lhHist.docs0[d] = "true"
       /\ empLhold[documents[d].e_id] = "false"
       /\ d \in SeqIds(written)
       /\ documents[d].d_r_status = "started"

\* ---------------------------------------------------------------------
\* C29: when every store call returns, every run of either page ends, in
\* success or in error and in nothing else; busy is true exactly while
\* the run is in progress, it is false again after either ending, and a
\* run only begins while busy is false, so a page has one run at a time.
\* ---------------------------------------------------------------------
C29_RunsEnd ==
  /\ [](busy <=> pc # "idle")
  /\ [](lhBusy <=> lhPc # "idle")
  /\ [][(busy /\ ~ busy') =>
          status' \in {"Successful: Retention batch finished.", "Error: store"}]_vars
  /\ [][(lhBusy /\ ~ lhBusy') =>
          lhStatus' \in {"Successful: Legal Hold batch finished.", "Error: store"}]_vars
  /\ [][(pc' = "readDocs" /\ pc # "readDocs") => ~ busy]_vars
  /\ [][(lhPc' = "empCounts" /\ lhPc # "empCounts") => ~ lhBusy]_vars
  /\ busy ~> (~ busy)
  /\ lhBusy ~> (~ lhBusy)

C29_Witness ==
  /\ ErrorEnded /\ ~ busy /\ rows.start # ""
  /\ LhSucceeded /\ ~ lhBusy /\ lhRows.start # ""
  /\ runHist.chained

\* ---------------------------------------------------------------------
\* Vocabulary of the properties of the page open in two browsers
\* ---------------------------------------------------------------------
\* the last run of the second page ended on the success path
Lh2Succeeded ==
  second.pc = "idle" /\ second.status = "Successful: Legal Hold batch finished."

\* the employee sets a run has read are those of the directory as it is
ReadCurrent(l) ==
  /\ l.empYesSet = employeesByHold(empLhold, "true")
  /\ l.empNoSet = employeesByHold(empLhold, "false")

\* the update calls a run has queued, in the order of the two loops
QueuedWrites(l) == lhBatches(l.activateDocIds) \o lhBatches(l.removeDocIds)

\* ---------------------------------------------------------------------
\* C23: runs are not mutually excluded: whenever the busy flag of a page
\* is false that page can start a run, whatever the other page is doing.
\* ---------------------------------------------------------------------
C23_NoMutualExclusion ==
  /\ ~ lhBusy => ENABLED LhStart
  /\ ~ second.busy => ENABLED Lh2Start

\* both runs have ended in success; the second wrote while the first had
\* its writes pending; the first had read the directory before a hold was
\* lifted, the second after; the first wrote after the second had ended,
\* and a document now disagrees with its employee
C23_Witness ==
  /\ LhSucceeded /\ Lh2Succeeded
  /\ second.overlap
  /\ ~ ReadCurrent(lh) /\ ReadCurrent(second.lh)
  /\ Len(lhHist.calls) > second.seen
  /\ lhHist.calls[Len(lhHist.calls)].ok
  /\ \E d \in DOMAIN documents :
       Matched(d) /\ documents[d].e_lhold # empLhold[documents[d].e_id]

\* ---------------------------------------------------------------------
\* C27: within one run of either batch each document id occurs in at most
\* one queued write: the updates of a retention run are of different
\* documents, and no document id is in two update calls of a legal hold
\* run.
\* ---------------------------------------------------------------------
C27_OneWritePerDocument ==
  /\ \A i, j \in 1..Len(updates) :
       updates[i].d_id = updates[j].d_id => i = j
  /\ \A l \in {lh, second.lh} :
       \A i, j \in 1..Len(QueuedWrites(l)) :
         SeqIds(QueuedWrites(l)[i]) \cap SeqIds(QueuedWrites(l)[j]) # {}
           => i = j

====
